---- MODULE Spec2Model ----
(***************************************************************************)
(* A model of webassets' merge.py: hunks (UrlHunk.data() included),        *)
(* merge(), the cache-aware FilterTool (apply / apply_func / _wrap_cache), *)
(* merge_filters() and select_filters(), and of GZip.output of             *)
(* filter/gzip.py.                                                         *)
(*                                                                         *)
(* Contents are records [kind, val]: kind tells str from bytes, val is the *)
(* sequence of characters.  A hunk is [id, origin, content]; `origin` is   *)
(* "file" (FileHunk), "mem" (MemoryHunk over a str/bytes value) or         *)
(* "stream" (MemoryHunk over a readable object).  Filters are records      *)
(* [name, inst]: two instances of one filter are equal filters.            *)
(***************************************************************************)
EXTENDS Integers, Sequences, FiniteSets, TLC

VARIABLES
    cache,    \* the shared cache store: normalised key -> content
    drained,  \* ids of stream-backed MemoryHunks whose stream has been read
    last,     \* the last call: its inputs and what it did and returned
    ncalls,   \* calls made so far
    writer,   \* history: for each cache key, the call that wrote its entry
    proc,     \* SpecConc: each thread's position inside _wrap_cache
    memo      \* SpecUrl: each UrlHunk's _data attribute, once it has one

vars == <<cache, drained, last, ncalls, writer, proc, memo>>

\* ---------------------------------------------------------------- bounds
MaxCalls == 2      \* calls per behaviour of Spec
MaxFilters == 2    \* longest filter list handed to apply / apply_func
MaxHunks == 2      \* longest hunk list handed to merge
NProcs == 2        \* threads of SpecConc

\* ---------------------------------------------------------------- values
Text(s) == [kind |-> "text", val |-> s]
Bytes(s) == [kind |-> "bytes", val |-> s]
Absent == [kind |-> "none", val |-> <<>>]

\* FileHunk.data() decodes, so a file hunk's content is text.  M1 has the
\* content of F1 with another origin, MB the same characters as bytes, S1
\* holds an unread stream over the same characters.
Hunks ==
    { [id |-> "F1", origin |-> "file",   content |-> Text(<<"a">>)],
      [id |-> "M1", origin |-> "mem",    content |-> Text(<<"a">>)],
      [id |-> "MB", origin |-> "mem",    content |-> Bytes(<<"a">>)],
      [id |-> "S1", origin |-> "stream", content |-> Text(<<"a">>)],
      [id |-> "M0", origin |-> "mem",    content |-> Text(<<>>)],
      [id |-> "M2", origin |-> "mem",    content |-> Text(<<"b">>)] }

\* data(): a stream-backed MemoryHunk returns what is left of its stream.
Data(h, d) ==
    IF h.origin = "stream" /\ h.id \in d
    THEN [kind |-> h.content.kind, val |-> <<>>]
    ELSE h.content

\* The effect of one data() call on the streams.
AfterRead(h, d) == IF h.origin = "stream" THEN d \cup {h.id} ELSE d

\* hash() of a content: CPython hashes a str and the bytes of the same ASCII
\* characters to the same value, so the kind is not part of the hash.
Hash(c) == c.val

\* BaseHunk.__hash__: hash(self.data()).
HunkHash(h, d) == Hash(Data(h, d))

\* BaseHunk.__eq__: equal hashes.
HunkEq(h1, h2, d) == HunkHash(h1, d) = HunkHash(h2, d)

\* --------------------------------------------------------------- filters
Filter(n, i) == [name |-> n, inst |-> i]

\* Filter.__eq__: the equality relation of filters (by what the filter is,
\* not by instance).
FilterEq(f, g) == f.name = g.name

VALID_TRANSFORMS == {"input", "output"}
VALID_FUNCS == {"open", "concat"}

\* getattr(f, type, None): the methods each sample filter implements.
Implements(f, type) ==
    CASE f.name = "A" -> type \in {"output"}
      [] f.name = "B" -> type \in {"input", "output"}
      [] f.name = "O" -> type \in {"open", "concat"}
      [] f.name = "P" -> type \in {"open"}
      [] f.name = "gzip" -> type \in {"output"}
      [] OTHER -> FALSE

\* Options: each option name is "absent" or carries a value.
OptNames == {"strip"}
NoOpts == [n \in OptNames |-> "absent"]
ToolOpts == {NoOpts, [n \in OptNames |-> "no"]}
CallOpts == {NoOpts, [n \in OptNames |-> "yes"]}

\* Options merged with the defaults taking precedence.
MergeOptsDefaultsWin(defaults, given) ==
    [n \in OptNames |-> IF defaults[n] # "absent" THEN defaults[n] ELSE given[n]]

\* self.kwargs and the caller's kwargs once kwargs_final is built: copy()
\* makes a new dict and update() only reads its argument.
KwargsAfter(defaults, given) == [defaults |-> defaults, given |-> given]

\* kwargs_final = self.kwargs.copy(); kwargs_final.update(kwargs or {})
MergeOpts(defaults, given) ==
    [n \in OptNames |-> IF given[n] # "absent" THEN given[n] ELSE defaults[n]]

\* gzip.GzipFile(...).write(data): the compressed form, never empty.
Compress(val) == <<"gz">> \o val

\* GZip.output(_in, out): the names `out` and `_in` are rebound to new
\* BytesIO objects and the compressed data goes to the new `out`; `passed`
\* is what the stream handed in as `out` holds afterwards, `local` what the
\* new object holds.
GZipOutput(val, out) == [passed |-> out, local |-> Compress(val)]

\* getattr(filter, type)(data, out, **kwargs_final): what the sample filters
\* write to `out`.  A appends a mark; B.output appends a mark unless told to
\* strip; B.input prepends a mark.
Transform(f, type, val, opts) ==
    CASE f.name = "A" /\ type = "output" -> Append(val, "A")
      [] f.name = "B" /\ type = "output" ->
            IF opts["strip"] = "yes" THEN val ELSE Append(val, "B")
      [] f.name = "B" /\ type = "input" -> <<"i">> \o val
      [] f.name = "gzip" /\ type = "output" -> GZipOutput(val, <<>>).passed
      [] OTHER -> val

\* getattr(filter, type)(out, *args, **kwargs_final) of the sample producers.
Produce(f, type, args, opts) ==
    CASE f.name = "O" /\ type = "open" -> <<"o">> \o args
      [] f.name = "O" /\ type = "concat" -> <<"c">> \o args
      [] f.name = "P" /\ type = "open" ->
            IF opts["strip"] = "yes" THEN args ELSE <<"p">> \o args
      [] OTHER -> <<>>

\* [f for f in filters if getattr(f, type, None)]
Matching(filters, type) == SelectSeq(filters, LAMBDA f : Implements(f, type))

\* ----------------------------------------------------------- cache store
\* The store is a map; a key is looked up by value, a hunk inside it by its
\* hash and a filter by its equality.
FilterIds(filters) == [i \in DOMAIN filters |-> filters[i].name]

\* cache.get(key): the stored content, or None.
CacheGet(c, k) == IF k \in DOMAIN c THEN c[k] ELSE Absent

\* cache.set(key, content)
CacheSet(c, k, content) == [x \in DOMAIN c \cup {k} |-> IF x = k THEN content ELSE c[x]]

\* ------------------------------------------------------------ FilterTool
\* FilterTool(cache, no_cache_read, kwargs); `cache` tells whether the tool
\* was given the shared cache store.
Tools ==
    {t \in [cache : BOOLEAN, no_cache_read : BOOLEAN, kwargs : ToolOpts] :
        t.no_cache_read => t.cache}

TransformFilters == {Filter("A", 1), Filter("B", 1)}
ProducerFilters == {Filter("O", 1), Filter("P", 1)}

RECURSIVE SeqsUpTo(_, _)
SeqsUpTo(S, n) ==
    IF n = 0 THEN {<<>>}
    ELSE LET shorter == SeqsUpTo(S, n - 1)
         IN shorter \cup {Append(s, x) : s \in {t \in shorter : Len(t) = n - 1}, x \in S}

NoRepeat(s) == \A i, j \in DOMAIN s : i # j => s[i] # s[j]

\* The filter lists handed to apply and to apply_func.
ApplyLists == {s \in SeqsUpTo(TransformFilters, MaxFilters) : NoRepeat(s)}
FuncLists == {s \in SeqsUpTo(ProducerFilters, MaxFilters) : NoRepeat(s)}

\* The hunks handed to apply, the positional arguments and the extra key
\* values handed to apply_func (cache_key=None is [given |-> FALSE]).
ApplyHunks == {h \in Hunks : h.id \in {"F1", "M1", "MB", "S1"}}
FuncArgs == {<<"x">>}
NoCacheKey == [given |-> FALSE, val |-> <<>>]
CacheKeys == {NoCacheKey, [given |-> TRUE, val |-> <<"v">>]}

\* The loop of apply's func(): each filter reads `data` and writes a fresh
\* stream of the same kind, which becomes the next filter's input.
RECURSIVE RunChain(_, _, _, _)
RunChain(filters, type, data, opts) ==
    IF filters = <<>> THEN [out |-> data, invoked |-> <<>>]
    ELSE LET f == Head(filters)
             out == [kind |-> data.kind, val |-> Transform(f, type, data.val, opts)]
             rest == RunChain(Tail(filters), type, out, opts)
         IN [out |-> rest.out,
             invoked |-> <<[filter |-> f, type |-> type, in |-> data,
                            opts |-> opts, out |-> out]>> \o rest.invoked]

\* The key if apply_func left cache_key out of it.
NormKeyNoExtra(fn, d) ==
    IF fn.op = "apply"
    THEN <<"hunk", HunkHash(fn.hunk, d), FilterIds(fn.filters), fn.type>>
    ELSE <<"hunk", fn.args, FilterIds(fn.filters), fn.type, <<>> >>

\* A call as _wrap_cache sees it: fn.op tells apply's func() from
\* apply_func's; fn.filters are the matching filters.
\* The key as the store sees it when it looks at it with the streams as in d.
NormKey(fn, d) ==
    IF fn.op = "apply"
    THEN <<"hunk", HunkHash(fn.hunk, d), FilterIds(fn.filters), fn.type>>
    ELSE <<"hunk", fn.args, FilterIds(fn.filters), fn.type,
           IF fn.cache_key.given THEN fn.cache_key.val ELSE <<>> >>

\* Looking at the key hashes the hunk in it, which reads the hunk.
KeyReads(fn, d) == IF fn.op = "apply" THEN AfterRead(fn.hunk, d) ELSE d

\* func(): apply's reads the hunk and runs the chain; apply_func's calls the
\* one producer with a fresh text stream.
Func(fn, d) ==
    LET opts == MergeOpts(fn.tool.kwargs, fn.kwargs)
    IN IF fn.op = "apply"
       THEN LET r == RunChain(fn.filters, fn.type, Data(fn.hunk, d), opts)
            IN [out |-> r.out, invoked |-> r.invoked, drained |-> AfterRead(fn.hunk, d)]
       ELSE LET f == fn.filters[1]
                out == Text(Produce(f, fn.type, fn.args, opts))
            IN [out |-> out,
                invoked |-> <<[filter |-> f, type |-> fn.type, in |-> Text(fn.args),
                               opts |-> opts, out |-> out]>>,
                drained |-> d]

\* _wrap_cache as it would be if no_cache_read were ignored.
WrapCacheAlwaysReads(fn, c, d) ==
    LET getKey == NormKey(fn, d)
        content == IF fn.tool.cache THEN CacheGet(c, getKey) ELSE Absent
        d1 == IF fn.tool.cache THEN KeyReads(fn, d) ELSE d
        gets == IF fn.tool.cache THEN <<[op |-> "get", key |-> getKey]>> ELSE <<>>
        r == Func(fn, d1)
        setKey == NormKey(fn, r.drained)
    IN IF fn.tool.cache /\ content # Absent
       THEN [ret |-> [tag |-> "new", content |-> content], hit |-> TRUE,
             ops |-> gets, invoked |-> <<>>, cache |-> c, drained |-> d1]
       ELSE IF fn.tool.cache
       THEN [ret |-> [tag |-> "new", content |-> r.out], hit |-> FALSE,
             ops |-> gets \o <<[op |-> "set", key |-> setKey]>>,
             invoked |-> r.invoked,
             cache |-> CacheSet(c, setKey, r.out),
             drained |-> KeyReads(fn, r.drained)]
       ELSE [ret |-> [tag |-> "new", content |-> r.out], hit |-> FALSE,
             ops |-> gets, invoked |-> r.invoked, cache |-> c, drained |-> r.drained]

\* FilterTool._wrap_cache(key, func) on store c with the streams as in d.
\* `ops` lists the calls made on the store, `invoked` the filter methods run.
WrapCache(fn, c, d) ==
    LET doGet == fn.tool.cache /\ ~fn.tool.no_cache_read
        getKey == NormKey(fn, d)
        content == IF doGet THEN CacheGet(c, getKey) ELSE Absent
        d1 == IF doGet THEN KeyReads(fn, d) ELSE d
        gets == IF doGet THEN <<[op |-> "get", key |-> getKey]>> ELSE <<>>
        r == Func(fn, d1)
        setKey == NormKey(fn, r.drained)
    IN IF doGet /\ content # Absent
       THEN [ret |-> [tag |-> "new", content |-> content], hit |-> TRUE,
             ops |-> gets, invoked |-> <<>>, cache |-> c, drained |-> d1]
       ELSE IF fn.tool.cache
       THEN [ret |-> [tag |-> "new", content |-> r.out], hit |-> FALSE,
             ops |-> gets \o <<[op |-> "set", key |-> setKey]>>,
             invoked |-> r.invoked,
             cache |-> CacheSet(c, setKey, r.out),
             drained |-> KeyReads(fn, r.drained)]
       ELSE [ret |-> [tag |-> "new", content |-> r.out], hit |-> FALSE,
             ops |-> gets, invoked |-> r.invoked, cache |-> c, drained |-> r.drained]

\* apply as it would be without the short-circuit.
ApplyResNoShortCircuit(tool, hunk, filters, type, kwargs, c, d) ==
    WrapCache([op |-> "apply", tool |-> tool, hunk |-> hunk,
               filters |-> Matching(filters, type), type |-> type,
               kwargs |-> kwargs], c, d)

\* FilterTool.apply(hunk, filters, type, kwargs)
ApplyRes(tool, hunk, filters, type, kwargs, c, d) ==
    LET m == Matching(filters, type)
    IN IF m = <<>>
       THEN [ret |-> [tag |-> "same", hunk |-> hunk], hit |-> FALSE,
             ops |-> <<>>, invoked |-> <<>>, cache |-> c, drained |-> d]
       ELSE WrapCache([op |-> "apply", tool |-> tool, hunk |-> hunk, filters |-> m,
                       type |-> type, kwargs |-> kwargs], c, d)

\* apply_func as it would be if the first matching filter simply won.
ApplyFuncResFirstWins(tool, filters, type, args, kwargs, cache_key, c, d) ==
    LET m == Matching(filters, type)
    IN IF m = <<>>
       THEN [ret |-> [tag |-> "NoFilters"], hit |-> FALSE,
             ops |-> <<>>, invoked |-> <<>>, cache |-> c, drained |-> d]
       ELSE WrapCache([op |-> "apply_func", tool |-> tool, args |-> args,
                       filters |-> <<m[1]>>, type |-> type, kwargs |-> kwargs,
                       cache_key |-> cache_key], c, d)

\* apply_func as it would be if it looked the cache up before it counted
\* the matching filters.
ApplyFuncResLooksUpFirst(tool, filters, type, args, kwargs, cache_key, c, d) ==
    LET m == Matching(filters, type)
        looked == IF tool.cache
                  THEN <<[op |-> "get", key |-> <<"hunk", args, FilterIds(m), type>>]>>
                  ELSE <<>>
    IN IF m = <<>>
       THEN [ret |-> [tag |-> "NoFilters"], hit |-> FALSE,
             ops |-> looked, invoked |-> <<>>, cache |-> c, drained |-> d]
       ELSE IF Len(m) > 1
       THEN [ret |-> [tag |-> "MoreThanOneFilterError", filters |-> m], hit |-> FALSE,
             ops |-> looked, invoked |-> <<>>, cache |-> c, drained |-> d]
       ELSE WrapCache([op |-> "apply_func", tool |-> tool, args |-> args, filters |-> m,
                       type |-> type, kwargs |-> kwargs, cache_key |-> cache_key], c, d)

\* FilterTool.apply_func(filters, type, args, kwargs, cache_key)
ApplyFuncRes(tool, filters, type, args, kwargs, cache_key, c, d) ==
    LET m == Matching(filters, type)
    IN IF m = <<>>
       THEN [ret |-> [tag |-> "NoFilters"], hit |-> FALSE,
             ops |-> <<>>, invoked |-> <<>>, cache |-> c, drained |-> d]
       ELSE IF Len(m) > 1
       THEN [ret |-> [tag |-> "MoreThanOneFilterError", filters |-> m], hit |-> FALSE,
             ops |-> <<>>, invoked |-> <<>>, cache |-> c, drained |-> d]
       ELSE WrapCache([op |-> "apply_func", tool |-> tool, args |-> args, filters |-> m,
                       type |-> type, kwargs |-> kwargs, cache_key |-> cache_key], c, d)

\* ------------------------------------------------------------------ merge
\* merge(hunks, separator): separator=None is [given |-> FALSE].
NoSeparator == [given |-> FALSE, val |-> <<>>]
Separators ==
    {NoSeparator, [given |-> TRUE, val |-> <<>>], [given |-> TRUE, val |-> <<";">>]}
Newline == <<"\n">>

\* The loop of merge: each hunk's data(), decoded when it is bytes.
RECURSIVE MergeParts(_, _)
MergeParts(hunks, d) ==
    IF hunks = <<>> THEN [parts |-> <<>>, drained |-> d]
    ELSE LET h == Head(hunks)
             rest == MergeParts(Tail(hunks), AfterRead(h, d))
         IN [parts |-> <<Data(h, d).val>> \o rest.parts, drained |-> rest.drained]

\* separator.join(tmp)
RECURSIVE Join(_, _)
Join(parts, sep) ==
    IF parts = <<>> THEN <<>>
    ELSE IF Len(parts) = 1 THEN parts[1]
    ELSE parts[1] \o sep \o Join(Tail(parts), sep)

MergeRes(hunks, separator, d) ==
    LET sep == IF ~separator.given \/ separator.val = <<>> THEN Newline ELSE separator.val
        r == MergeParts(hunks, d)
    IN [ret |-> [tag |-> "new", content |-> Text(Join(r.parts, sep))],
        parts |-> r.parts, drained |-> r.drained]

\* ---------------------------------------------------------- merge_filters
\* `f in result`
In(f, list) == \E i \in DOMAIN list : FilterEq(f, list[i])

\* The loop as it would be if a filter were only looked up in filters1.
AppendNotInFirst(result, filters2) ==
    result \o SelectSeq(filters2, LAMBDA f : ~In(f, result))

\* The loop of merge_filters over filters2.
RECURSIVE AppendNew(_, _)
AppendNew(result, filters2) ==
    IF filters2 = <<>> THEN result
    ELSE LET f == Head(filters2)
         IN AppendNew(IF ~In(f, result) THEN Append(result, f) ELSE result, Tail(filters2))

\* merge_filters(filters1, filters2): the list returned, and the two
\* arguments as they are after the call (the result is built on a copy).
\* filters2=None is [given |-> FALSE].
MergeFiltersRes(filters1, filters2) ==
    [result |-> IF filters2.given /\ filters2.val # <<>>
                THEN AppendNew(filters1, filters2.val) ELSE filters1,
     filters1 |-> filters1,
     filters2 |-> filters2]

\* --------------------------------------------------------- select_filters
\* The debug levels, lowest first.
LevelOrder == <<"False", "merge", "True">>
DebugLevels == {LevelOrder[i] : i \in DOMAIN LevelOrder}
NoLevel == "None"
LevelRank(l) == CHOOSE i \in DOMAIN LevelOrder : LevelOrder[i] = l

\* cmp_debug_levels(level1, level2): negative, zero or positive as level1 is
\* below, at or above level2.
cmp_debug_levels(level1, level2) ==
    IF LevelRank(level1) < LevelRank(level2) THEN -1
    ELSE IF LevelRank(level1) > LevelRank(level2) THEN 1 ELSE 0

\* A filter with its max_debug_level (NoLevel for None).
LevelFilter(n, m) == [name |-> n, max_debug_level |-> m]

\* select_filters with a strict comparison.
SelectFiltersStrict(filters, level) ==
    SelectSeq(filters, LAMBDA f : \/ f.max_debug_level = NoLevel
                                  \/ cmp_debug_levels(level, f.max_debug_level) < 0)

\* [f for f in filters if f.max_debug_level is None or
\*                        cmp_debug_levels(level, f.max_debug_level) <= 0]
SelectFiltersRes(filters, level) ==
    SelectSeq(filters, LAMBDA f : \/ f.max_debug_level = NoLevel
                                  \/ cmp_debug_levels(level, f.max_debug_level) <= 0)

\* ---------------------------------------------------------------- UrlHunk
\* UrlHunk(url, env): U1 and U2 are two hunks for one url whose environment
\* has the cache store; U3 is a hunk for that url with no environment (or
\* one whose cache is None).
UrlHunks ==
    { [id |-> "U1", url |-> "u", envcache |-> TRUE],
      [id |-> "U2", url |-> "u", envcache |-> TRUE],
      [id |-> "U3", url |-> "u", envcache |-> FALSE] }
UrlHunkIds == {h.id : h \in UrlHunks}

\* The _data attribute: not set, or set to a content (None included).
NoMemo == [has |-> FALSE, data |-> Absent, fetched |-> 0]

\* What urlopen does with the request.  "ok" is a response; its read() gives
\* the body or fails (readfails); its headers carry ETag / Last-Modified or
\* not ("None"), and are a message object that has a getheader method or has
\* none (http.client.HTTPMessage has none).  "http" is an HTTPError with a
\* status code, which carries the response; "url" is a URLError, which
\* carries none.
Validators == {<<"e", "l">>, <<"None", "l">>, <<"None", "None">>}
Bodies == {Bytes(<<"B">>), Bytes(<<"C">>)}
OkReplies ==
    [kind : {"ok"}, code : {"200"}, body : Bodies, validators : Validators,
     readfails : {FALSE}, getheader : BOOLEAN]
    \cup { [kind |-> "ok", code |-> "200", body |-> Bytes(<<"B">>),
            validators |-> <<"e", "l">>, readfails |-> TRUE, getheader |-> FALSE] }
ErrReply(k, code) ==
    [kind |-> k, code |-> code, body |-> Absent, validators |-> <<"None", "None">>,
     readfails |-> FALSE, getheader |-> FALSE]
Replies == OkReplies \cup {ErrReply("http", "304"), ErrReply("http", "404"), ErrReply("url", "none")}

HeadersKey(url) == <<"url", "headers", url>>
ContentsKey(url) == <<"url", "contents", url>>
HeadersValue(v) == [kind |-> "headers", val |-> v]

\* The headers data() adds to the request from what the cache holds.
RequestHeaders(h, c) ==
    LET headers == IF h.envcache THEN CacheGet(c, HeadersKey(h.url)) ELSE Absent
    IN IF headers = Absent THEN {}
       ELSE (IF headers.val[1] # "None" THEN {<<"If-None-Match", headers.val[1]>>} ELSE {})
            \cup (IF headers.val[2] # "None"
                  THEN {<<"If-Modified-Since", headers.val[2]>>} ELSE {})

Returns(content) == [tag |-> "return", content |-> content]
Raises(error) == [tag |-> "raise", content |-> Absent, error |-> error]

\* data() that does not look at _data.
DataResNoMemo(h, reply, c, m) ==
    [ret |-> Returns(reply.body), requested |-> TRUE, sent |-> {}, ops |-> <<>>,
     cache |-> c, memo |-> [m EXCEPT !.has = TRUE, !.data = reply.body,
                                     !.fetched = m.fetched + 1],
     response |-> "closed"]

\* UrlHunk.data() on hunk h whose _data is m, when urlopen answers `reply`.
\* response: "none" if the transport handed over no response, else whether
\* the response (or the HTTPError holding it) was closed.
DataRes(h, reply, c, m) ==
    LET sent == RequestHeaders(h, c)
        gets == IF h.envcache THEN <<[op |-> "get", key |-> HeadersKey(h.url)]>> ELSE <<>>
        got == [m EXCEPT !.has = TRUE, !.data = reply.body, !.fetched = m.fetched + 1]
        base == [requested |-> TRUE, sent |-> sent, ops |-> gets, cache |-> c, memo |-> m]
    IN IF m.has
       THEN [ret |-> Returns(m.data), requested |-> FALSE, sent |-> {}, ops |-> <<>>,
             cache |-> c, memo |-> m, response |-> "none"]
       ELSE IF reply.kind = "url"
       THEN base @@ [ret |-> Raises("URLError"), response |-> "none"]
       ELSE IF reply.kind = "http" /\ reply.code # "304"
       THEN base @@ [ret |-> Raises("HTTPError"), response |-> "open"]
       ELSE IF reply.kind = "http"
       THEN IF ~h.envcache
            THEN base @@ [ret |-> Raises("AttributeError"), response |-> "open"]
            ELSE LET content == CacheGet(c, ContentsKey(h.url))
                 IN [base EXCEPT
                        !.ops = gets \o <<[op |-> "get", key |-> ContentsKey(h.url)]>>,
                        !.memo = [m EXCEPT !.has = TRUE, !.data = content]]
                    @@ [ret |-> Returns(content), response |-> "open"]
       ELSE IF reply.readfails
       THEN base @@ [ret |-> Raises("IOError"), response |-> "closed"]
       ELSE IF ~h.envcache
       THEN [base EXCEPT !.memo = got] @@ [ret |-> Returns(reply.body), response |-> "closed"]
       ELSE IF ~reply.getheader
       THEN [base EXCEPT !.memo = got]
            @@ [ret |-> Raises("AttributeError"), response |-> "closed"]
       ELSE [base EXCEPT
                !.memo = got,
                !.ops = gets \o <<[op |-> "set", key |-> HeadersKey(h.url)],
                                  [op |-> "set", key |-> ContentsKey(h.url)]>>,
                !.cache = CacheSet(CacheSet(c, HeadersKey(h.url),
                                            HeadersValue(reply.validators)),
                                   ContentsKey(h.url), reply.body)]
            @@ [ret |-> Returns(reply.body), response |-> "closed"]

\* ---------------------------------------------------------------- Spec
\* The keys whose entry a call added or changed.
Delta(c, c2) == {k \in DOMAIN c2 : k \notin DOMAIN c \/ c[k] # c2[k]}

\* What a call's cache.set calls wrote, as the history keeps it.
Written(w, ops, by) ==
    [k \in DOMAIN w \cup {ops[i].key : i \in {j \in DOMAIN ops : ops[j].op = "set"}} |->
        IF \E i \in DOMAIN ops : ops[i].op = "set" /\ ops[i].key = k THEN by ELSE w[k]]

NoCall == [op |-> "none"]

Init ==
    /\ cache = <<>>
    /\ drained = {}
    /\ last = NoCall
    /\ ncalls = 0
    /\ writer = <<>>
    /\ proc = [p \in 1..NProcs |-> [pc |-> "idle"]]
    /\ memo = [u \in UrlHunkIds |-> NoMemo]

\* No call is in progress and the behaviour has calls left.
Idle == ncalls < MaxCalls /\ last = NoCall

Apply(tool, hunk, filters, type, kwargs) ==
    /\ \E r \in {ApplyRes(tool, hunk, filters, type, kwargs, cache, drained)} :
          LET by == [op |-> "apply", subject |-> Data(hunk, drained),
                     filters |-> FilterIds(Matching(filters, type)), type |-> type,
                     extra |-> <<>>]
          IN /\ cache' = r.cache
             /\ drained' = r.drained
             /\ writer' = Written(writer, r.ops, by)
             /\ last' = [op |-> "apply", tool |-> tool, hunk |-> hunk,
                         filters |-> filters, type |-> type, kwargs |-> kwargs,
                         data |-> Data(hunk, drained),
                         ret |-> r.ret, hit |-> r.hit, ops |-> r.ops,
                         invoked |-> r.invoked, delta |-> Delta(cache, r.cache),
                         from |-> IF r.hit THEN writer[r.ops[1].key] ELSE NoCall,
                         tool_after |->
                            [tool EXCEPT !.kwargs = KwargsAfter(tool.kwargs, kwargs).defaults],
                         kwargs_after |-> KwargsAfter(tool.kwargs, kwargs).given]
    /\ ncalls' = ncalls + 1
    /\ UNCHANGED <<proc, memo>>

DoApply ==
    /\ Idle
    /\ \E tool \in Tools, hunk \in ApplyHunks, filters \in ApplyLists,
          type \in VALID_TRANSFORMS, kwargs \in CallOpts :
          Apply(tool, hunk, filters, type, kwargs)

ApplyFunc(tool, filters, type, args, kwargs, cache_key) ==
    /\ \E r \in {ApplyFuncRes(tool, filters, type, args, kwargs, cache_key,
                              cache, drained)} :
          LET by == [op |-> "apply_func", subject |-> args,
                     filters |-> FilterIds(Matching(filters, type)), type |-> type,
                     extra |-> IF cache_key.given THEN cache_key.val ELSE <<>>]
          IN /\ cache' = r.cache
             /\ drained' = r.drained
             /\ writer' = Written(writer, r.ops, by)
             /\ last' = [op |-> "apply_func", tool |-> tool, filters |-> filters,
                         type |-> type, args |-> args, kwargs |-> kwargs,
                         cache_key |-> cache_key, ret |-> r.ret, hit |-> r.hit,
                         ops |-> r.ops, invoked |-> r.invoked,
                         delta |-> Delta(cache, r.cache),
                         from |-> IF r.hit THEN writer[r.ops[1].key] ELSE NoCall,
                         tool_after |->
                            [tool EXCEPT !.kwargs = KwargsAfter(tool.kwargs, kwargs).defaults],
                         kwargs_after |-> KwargsAfter(tool.kwargs, kwargs).given]
    /\ ncalls' = ncalls + 1
    /\ UNCHANGED <<proc, memo>>

\* apply with the GZip filter, on hunks whose data() is a str (GZip.output
\* encodes what it reads).
GZipHunks == {h \in ApplyHunks : h.origin # "stream" /\ h.content.kind = "text"}

DoApplyGZip ==
    /\ Idle
    /\ \E tool \in Tools, hunk \in GZipHunks :
          Apply(tool, hunk, <<Filter("gzip", 1)>>, "output", NoOpts)

DoApplyFunc ==
    /\ Idle
    /\ \E tool \in Tools, filters \in FuncLists, type \in VALID_FUNCS,
          args \in FuncArgs, kwargs \in CallOpts, cache_key \in CacheKeys :
          ApplyFunc(tool, filters, type, args, kwargs, cache_key)

\* The caller takes the result; the next call can start.
Return ==
    /\ last # NoCall
    /\ last' = NoCall
    /\ UNCHANGED <<cache, drained, ncalls, writer, proc, memo>>

Next == DoApply \/ DoApplyGZip \/ DoApplyFunc \/ Return

Spec == Init /\ [][Next]_vars

\* ------------------------------------------------------------- SpecPure
\* merge and merge_filters on inputs drawn from bounded sets.
MergeHunkLists == SeqsUpTo(Hunks, MaxHunks)

FilterObjects == {Filter("A", 1), Filter("A", 2), Filter("B", 1), Filter("O", 1)}
MergeFilterLists == SeqsUpTo(FilterObjects, MaxFilters)
SecondLists ==
    {[given |-> FALSE, val |-> <<>>]} \cup {[given |-> TRUE, val |-> l] : l \in MergeFilterLists}

Merge(hunks, separator) ==
    /\ LET r == MergeRes(hunks, separator, drained)
       IN /\ drained' = r.drained
          /\ last' = [op |-> "merge", hunks |-> hunks, separator |-> separator,
                      parts |-> r.parts, ret |-> r.ret]
    /\ ncalls' = ncalls + 1
    /\ UNCHANGED <<cache, writer, proc, memo>>

DoMerge ==
    /\ Idle
    /\ \E hunks \in MergeHunkLists, separator \in Separators : Merge(hunks, separator)

MergeFilters(filters1, filters2) ==
    /\ LET r == MergeFiltersRes(filters1, filters2)
       IN last' = [op |-> "merge_filters", filters1 |-> filters1, filters2 |-> filters2,
                   result |-> r.result, after1 |-> r.filters1, after2 |-> r.filters2]
    /\ ncalls' = ncalls + 1
    /\ UNCHANGED <<cache, drained, writer, proc, memo>>

DoMergeFilters ==
    /\ Idle
    /\ \E filters1 \in MergeFilterLists, filters2 \in SecondLists :
          MergeFilters(filters1, filters2)

LevelFilters ==
    {LevelFilter("n", NoLevel)} \cup {LevelFilter(l, l) : l \in DebugLevels}
LevelFilterLists == SeqsUpTo(LevelFilters, MaxFilters)

SelectFilters(filters, level) ==
    /\ last' = [op |-> "select_filters", filters |-> filters, level |-> level,
                result |-> SelectFiltersRes(filters, level)]
    /\ ncalls' = ncalls + 1
    /\ UNCHANGED <<cache, drained, writer, proc, memo>>

DoSelectFilters ==
    /\ Idle
    /\ \E filters \in LevelFilterLists, level \in DebugLevels :
          SelectFilters(filters, level)

NextPure == DoMerge \/ DoMergeFilters \/ DoSelectFilters \/ Return

SpecPure == Init /\ [][NextPure]_vars

\* ------------------------------------------------------------- SpecConc
\* Threads that each make one apply call on the shared store, interleaved
\* at the calls _wrap_cache makes: cache.get, func(), cache.set.
Procs == 1..NProcs

ConcCalls ==
    [op : {"apply"}, tool : {t \in Tools : t.cache /\ ~t.no_cache_read},
     hunk : {h \in Hunks : h.id \in {"F1", "M1"}},
     filters : {<<Filter("B", 1)>>}, type : VALID_TRANSFORMS, kwargs : CallOpts]

\* apply up to the call of _wrap_cache: the tool reads the cache, so the
\* thread is about to call cache.get.
CStart(p, fn) ==
    /\ proc[p].pc = "idle"
    /\ proc' = [proc EXCEPT ![p] = [pc |-> "get", fn |-> fn, out |-> Absent,
                                    hit |-> FALSE, ret |-> Absent]]
    /\ UNCHANGED <<cache, drained, last, ncalls, writer, memo>>

\* content = self.cache.get(key); a hit returns MemoryHunk(content).
CGet(p) ==
    /\ proc[p].pc = "get"
    /\ LET content == CacheGet(cache, NormKey(proc[p].fn, drained))
       IN proc' = [proc EXCEPT ![p] =
                      IF content # Absent
                      THEN [@ EXCEPT !.pc = "done", !.hit = TRUE, !.ret = content]
                      ELSE [@ EXCEPT !.pc = "func"]]
    /\ UNCHANGED <<cache, drained, last, ncalls, writer, memo>>

\* content = func().getvalue()
CFunc(p) ==
    /\ proc[p].pc = "func"
    /\ proc' = [proc EXCEPT ![p] =
                   [@ EXCEPT !.pc = "set", !.out = Func(proc[p].fn, drained).out]]
    /\ UNCHANGED <<cache, drained, last, ncalls, writer, memo>>

\* self.cache.set(key, content); return MemoryHunk(content)
CSet(p) ==
    /\ proc[p].pc = "set"
    /\ cache' = CacheSet(cache, NormKey(proc[p].fn, drained), proc[p].out)
    /\ proc' = [proc EXCEPT ![p] = [@ EXCEPT !.pc = "done", !.ret = proc[p].out]]
    /\ UNCHANGED <<drained, last, ncalls, writer, memo>>

NextConc ==
    \E p \in Procs :
        \/ \E fn \in ConcCalls : CStart(p, fn)
        \/ CGet(p)
        \/ CFunc(p)
        \/ CSet(p)

SpecConc == Init /\ [][NextConc]_vars

\* ------------------------------------------------------------- SpecKeys
\* apply and apply_func calls by tools that share the cache store, with more
\* positional arguments and extra key values and fewer hunks than Spec.
KeyTools == {t \in Tools : t.cache}
KeyHunks == {h \in Hunks : h.id \in {"F1", "MB"}}
KeyArgs == {<<"x">>, <<"y">>}
KeyCacheKeys == CacheKeys \cup {[given |-> TRUE, val |-> <<>>]}

DoApplyKeys ==
    /\ Idle
    /\ \E tool \in KeyTools, hunk \in KeyHunks, filters \in ApplyLists,
          type \in VALID_TRANSFORMS :
          Apply(tool, hunk, filters, type, NoOpts)

DoApplyFuncKeys ==
    /\ Idle
    /\ \E tool \in KeyTools, filters \in FuncLists, type \in VALID_FUNCS,
          args \in KeyArgs, kwargs \in CallOpts, cache_key \in KeyCacheKeys :
          ApplyFunc(tool, filters, type, args, kwargs, cache_key)

NextKeys == DoApplyKeys \/ DoApplyFuncKeys \/ Return

SpecKeys == Init /\ [][NextKeys]_vars

\* -------------------------------------------------------------- SpecUrl
\* data() calls on UrlHunks that share the environment's cache store.
UrlData(h, reply) ==
    /\ \E r \in {DataRes(h, reply, cache, memo[h.id])} :
          /\ cache' = r.cache
          /\ memo' = [memo EXCEPT ![h.id] = r.memo]
          /\ last' = [op |-> "data", hunk |-> h, reply |-> reply,
                      before |-> memo[h.id], stored |-> cache,
                      ret |-> r.ret, requested |-> r.requested, sent |-> r.sent,
                      ops |-> r.ops, delta |-> Delta(cache, r.cache),
                      response |-> r.response]
    /\ ncalls' = ncalls + 1
    /\ UNCHANGED <<drained, writer, proc>>

DoUrlData ==
    /\ Idle
    /\ \E h \in UrlHunks, reply \in Replies : UrlData(h, reply)

NextUrl == DoUrlData \/ Return

SpecUrl == Init /\ [][NextUrl]_vars

\* ================================================================ claims
ReadTools == {t \in Tools : t.cache /\ ~t.no_cache_read}

\* The filters of the last call's list that implement its type, in order.
LastMatching == SelectSeq(last.filters, LAMBDA f : Implements(f, last.type))

\* The last call made again now, by tool t with options kw.
Reissue(t, kw) ==
    IF last.op = "apply"
    THEN ApplyRes(t, last.hunk, last.filters, last.type, kw, cache, drained)
    ELSE ApplyFuncRes(t, last.filters, last.type, last.args, kw, last.cache_key,
                      cache, drained)

\* C1: the content an apply call returns is what its matching filters, run
\* in order over the hunk's content with the call's merged options, produce,
\* whether it came from the cache or was computed.  Stated here for hunks
\* that hold their content as a value or a file, and for a call that is
\* computed or served from an entry written for that same content.
C1_ReturnedContentIsFilterOutput ==
    (last.op = "apply" /\ last.ret.tag = "new" /\ last.hunk.origin # "stream"
        /\ (last.hit => last.from.subject = last.hunk.content)) =>
        last.ret.content =
            RunChain(LastMatching, last.type, last.hunk.content,
                     MergeOpts(last.tool.kwargs, last.kwargs)).out

\* C2: after apply has run on a hunk with a cache store, apply with
\* read-caching on another hunk with equal data(), the same filters and the
\* same type is served from the cache and returns the same content.
C2_EqualDataSharesEntry ==
    (last.op = "apply" /\ last.ret.tag = "new" /\ last.tool.cache) =>
        \A h2 \in ApplyHunks :
            (h2.id # last.hunk.id /\ Data(h2, drained) = last.data) =>
                \A t \in ReadTools, kw \in CallOpts :
                    LET r == ApplyRes(t, h2, last.filters, last.type, kw, cache, drained)
                    IN r.hit /\ r.ret.content = last.ret.content

\* C3: an apply call is served only from an entry written by an apply call
\* with the same hunk content, the same tuple of matching filters and the
\* same type.  Stated here for hunks that hold their content as a value or
\* a file.
C3_HitOnlyFromSameCall ==
    (last.op = "apply" /\ last.hit /\ last.hunk.origin # "stream") =>
        last.from = [op |-> "apply", subject |-> last.hunk.content,
                     filters |-> FilterIds(LastMatching), type |-> last.type,
                     extra |-> <<>>]

\* C4: with a cache store and read-caching, once an apply call has
\* completed, every later apply call whose key equals the key that call
\* looked up (whatever its hunk, its options or the tool, as long as the
\* tool reads the cache) returns the identical content and runs no filter.
C4_LaterCallServedUnchanged ==
    (last.op = "apply" /\ last.ret.tag = "new" /\ last.tool.cache
        /\ ~last.tool.no_cache_read) =>
        \A t \in ReadTools, h2 \in ApplyHunks, kw \in CallOpts :
            LET later == [op |-> "apply", tool |-> t, hunk |-> h2,
                          filters |-> LastMatching, type |-> last.type, kwargs |-> kw]
                r == ApplyRes(t, h2, last.filters, last.type, kw, cache, drained)
            IN NormKey(later, drained) = last.ops[1].key =>
                  r.ret.content = last.ret.content /\ r.invoked = <<>>

\* C5: apply with a list in which no filter implements the type (the empty
\* list included) returns the very hunk it was given, calls neither
\* cache.get nor cache.set, runs no filter and leaves the store as it was.
C5_NoMatchReturnsHunkUntouched ==
    (last.op = "apply"
        /\ \A i \in DOMAIN last.filters : ~Implements(last.filters[i], last.type)) =>
        /\ last.ret.tag = "same"
        /\ last.ret.hunk = last.hunk
        /\ last.ops = <<>>
        /\ last.invoked = <<>>
        /\ last.delta = {}

C5_Witness ==
    /\ last.op = "apply"
    /\ last.filters # <<>>
    /\ LastMatching = <<>>
    /\ last.tool.cache
    /\ cache # <<>>
    /\ last.ret.tag = "same"

\* C6: apply_func returns a hunk exactly when one filter of the list
\* implements the type; with none it raises NoFilters, with two or more
\* MoreThanOneFilterError whose filters are the implementing filters in list
\* order.
C6_ExactlyOneProducer ==
    last.op = "apply_func" =>
        LET n == Cardinality({i \in DOMAIN last.filters :
                                Implements(last.filters[i], last.type)})
        IN /\ n = 0 => last.ret.tag = "NoFilters"
           /\ n >= 2 => /\ last.ret.tag = "MoreThanOneFilterError"
                        /\ last.ret.filters = LastMatching
           /\ n = 1 <=> last.ret.tag = "new"

C6_Witness ==
    /\ last.op = "apply_func"
    /\ last.ret.tag = "MoreThanOneFilterError"
    /\ Len(last.ret.filters) = 2

\* C7: a call of a tool with no_cache_read and a cache store that reaches
\* the cache stage calls no cache.get, runs the filter method(s), and writes
\* the computed content under the call's key, so that the same call by a
\* tool that reads the cache is a hit returning that content.
C7_NoCacheReadStillWrites ==
    (last.op \in {"apply", "apply_func"} /\ last.ret.tag = "new"
        /\ last.tool.cache /\ last.tool.no_cache_read) =>
        /\ ~last.hit
        /\ Len(last.invoked) = Len(LastMatching)
        /\ \A i \in DOMAIN last.invoked :
              /\ last.invoked[i].filter = LastMatching[i]
              /\ last.invoked[i].type = last.type
        /\ last.ret.content = last.invoked[Len(last.invoked)].out
        /\ Len(last.ops) = 1
        /\ last.ops[1].op = "set"
        /\ CacheGet(cache, last.ops[1].key) = last.ret.content
        /\ \A t \in ReadTools, kw \in CallOpts :
              LET r == Reissue(t, kw)
              IN r.hit /\ r.ret.content = last.ret.content /\ r.invoked = <<>>

\* A second call that recomputed and rewrote the one entry of the store.
C7_Witness ==
    /\ last.op = "apply"
    /\ last.tool.cache /\ last.tool.no_cache_read
    /\ last.ret.tag = "new"
    /\ ncalls = 2
    /\ Cardinality(DOMAIN cache) = 1
    /\ last.delta # {}

\* C8: calls that race check-then-populate on one key (each looked the key
\* up and missed) all return the same content, and that content is what the
\* store holds under the key once they are done.
C8_RacingCallsAgree ==
    \A p, q \in Procs :
        (/\ proc[p].pc = "done" /\ proc[q].pc = "done"
         /\ ~proc[p].hit /\ ~proc[q].hit
         /\ NormKey(proc[p].fn, drained) = NormKey(proc[q].fn, drained)) =>
            /\ proc[p].ret = proc[q].ret
            /\ CacheGet(cache, NormKey(proc[p].fn, drained)) = proc[p].ret

\* C9: merge(hunks, s) returns a new hunk whose content is the hunks' data()
\* in order joined by exactly s, the empty string included; the separator
\* is a newline only when none is given.
C9_MergeJoinsWithGivenSeparator ==
    last.op = "merge" =>
        last.ret.content.val =
            Join(last.parts, IF last.separator.given THEN last.separator.val ELSE Newline)

\* The indices of filters2 whose filter has no equal in filters1 and no equal
\* earlier in filters2.
Kept(f1, f2) ==
    {j \in DOMAIN f2 : ~In(f2[j], f1) /\ \A i \in 1..(j - 1) : ~FilterEq(f2[i], f2[j])}

\* C10: merge_filters returns filters1 unchanged followed by the filters of
\* filters2, in order, that have no equal earlier in the result; neither
\* argument is modified.
C10_MergeFiltersAppendsNew ==
    last.op = "merge_filters" =>
        LET f1 == last.filters1
            f2 == last.filters2.val
            kept == Kept(f1, f2)
        IN /\ Len(last.result) = Len(f1) + Cardinality(kept)
           /\ \A i \in DOMAIN f1 : last.result[i] = f1[i]
           /\ \A j \in kept :
                 last.result[Len(f1) + Cardinality({i \in kept : i <= j})] = f2[j]
           /\ last.after1 = last.filters1
           /\ last.after2 = last.filters2

\* merge_filters([A, B], [B, C]) = [A, B, C]
C10_Witness ==
    /\ last.op = "merge_filters"
    /\ last.filters1 = <<Filter("A", 1), Filter("B", 1)>>
    /\ last.filters2 = [given |-> TRUE, val |-> <<Filter("B", 1), Filter("O", 1)>>]
    /\ last.result = <<Filter("A", 1), Filter("B", 1), Filter("O", 1)>>

\* The indices of the filters select_filters is to keep at a level.
Selected(filters, level) ==
    {i \in DOMAIN filters :
        \/ filters[i].max_debug_level = NoLevel
        \/ LevelRank(filters[i].max_debug_level) >= LevelRank(level)}

\* C11: select_filters returns, in the original order, exactly the filters
\* with no max_debug_level or with one at or above the level.
C11_SelectFiltersKeepsAtOrAbove ==
    last.op = "select_filters" =>
        LET keep == Selected(last.filters, last.level)
        IN /\ Len(last.result) = Cardinality(keep)
           /\ \A i \in keep :
                 last.result[Cardinality({j \in keep : j <= i})] = last.filters[i]

\* At level 'merge' a filter with threshold False is dropped and one with
\* threshold 'merge' is kept.
C11_Witness ==
    /\ last.op = "select_filters"
    /\ last.level = "merge"
    /\ last.filters = <<LevelFilter("False", "False"), LevelFilter("merge", "merge")>>
    /\ last.result = <<LevelFilter("merge", "merge")>>

\* C12: on a UrlHunk whose environment has a cache, a data() call that
\* fetches and receives body B with validators stores both under the url and
\* returns B; a call that finds stored validators sends them, and on "not
\* modified" returns the stored body; any other transport error is raised
\* and leaves the store as it was.
C12_ConditionalFetch ==
    (last.op = "data" /\ ~last.before.has /\ last.hunk.envcache) =>
        LET url == last.hunk.url
            headers == CacheGet(last.stored, HeadersKey(url))
        IN /\ (/\ last.reply.kind = "ok" /\ ~last.reply.readfails
               /\ last.reply.validators # <<"None", "None">>) =>
                  /\ last.ret = Returns(last.reply.body)
                  /\ CacheGet(cache, ContentsKey(url)) = last.reply.body
                  /\ CacheGet(cache, HeadersKey(url)) = HeadersValue(last.reply.validators)
           /\ headers # Absent =>
                  /\ headers.val[1] # "None" => <<"If-None-Match", headers.val[1]>> \in last.sent
                  /\ headers.val[2] # "None" => <<"If-Modified-Since", headers.val[2]>> \in last.sent
                  /\ last.reply = ErrReply("http", "304") =>
                         last.ret = Returns(CacheGet(last.stored, ContentsKey(url)))
           /\ (\/ last.reply.kind = "url"
               \/ last.reply.kind = "http" /\ last.reply.code # "304") =>
                  /\ last.ret.tag = "raise"
                  /\ last.delta = {}

\* The errors the transport raises: URLError, an HTTPError other than 304,
\* a failure while reading the body.
TransportErrors == {"URLError", "HTTPError", "IOError"}

\* C17: a UrlHunk receives a body at most once; once it has its content a
\* data() call returns that content with no request and no cache access; a
\* call that raised a transport error leaves the hunk without content, and
\* the next call requests again.
C17_MemoizesOnFirstSuccess ==
    /\ \A u \in UrlHunkIds : memo[u].fetched <= 1
    /\ last.op = "data" =>
          /\ last.before.has =>
                /\ ~last.requested
                /\ last.ops = <<>>
                /\ last.ret = Returns(last.before.data)
                /\ memo[last.hunk.id] = last.before
          /\ (last.ret.tag = "raise" /\ last.ret.error \in TransportErrors) =>
                /\ ~memo[last.hunk.id].has
                /\ \A reply \in Replies :
                      DataRes(last.hunk, reply, cache, memo[last.hunk.id]).requested

\* A second data() on a hunk that fetched its body before.
C17_Witness ==
    /\ last.op = "data"
    /\ last.before.has
    /\ last.before.fetched = 1
    /\ last.reply.kind = "ok"
    /\ last.reply.body # last.before.data
    /\ last.ret = Returns(last.before.data)

\* C18: whatever response the transport handed to data(), as a return value
\* or inside an HTTPError, is closed when data() returns or raises.
C18_ResponseClosed ==
    last.op = "data" => last.response # "open"

\* C13: apply(hunk, [GZip], 'output'), when it runs the filter, returns the
\* compressed form of the hunk's content, which is not empty.
C13_GZipOutputIsCompressed ==
    (/\ last.op = "apply" /\ last.filters = <<Filter("gzip", 1)>>
     /\ last.type = "output" /\ last.ret.tag = "new" /\ ~last.hit) =>
        /\ last.ret.content.val = Compress(last.data.val)
        /\ last.ret.content.val # <<>>

\* C14: when apply runs the chain (no hit), each matching filter's method
\* is invoked once, in list order; the first reads the hunk's content, each
\* later one what the one before wrote; every output stream has the kind of
\* the hunk's content; and the returned content is the last output.
C14_ChainInOrder ==
    (last.op = "apply" /\ last.ret.tag = "new" /\ ~last.hit) =>
        LET n == Len(last.invoked)
        IN /\ n = Len(LastMatching)
           /\ \A i \in 1..n :
                 /\ last.invoked[i].filter = LastMatching[i]
                 /\ last.invoked[i].type = last.type
                 /\ Implements(last.invoked[i].filter, last.type)
                 /\ last.invoked[i].out.kind = last.hunk.content.kind
                 /\ last.invoked[i].in =
                        IF i = 1 THEN last.hunk.content ELSE last.invoked[i - 1].out
           /\ last.ret.content = last.invoked[n].out

\* C15: every call of data() on an in-memory hunk returns the content the
\* hunk was constructed with, so its hash is the hash of that content.
C15_MemoryHunkImmutable ==
    \A h \in Hunks :
        h.origin \in {"mem", "stream"} =>
            /\ Data(h, drained) = h.content
            /\ HunkHash(h, drained) = Hash(h.content)

\* `cache_key or []`
Extra(cache_key) == IF cache_key.given THEN cache_key.val ELSE <<>>

\* C16: an apply_func call is served only from an entry written by an
\* apply_func call with the same arguments, matching filter, type and extra
\* key values (none given counting as the empty list), and an apply call
\* only from an entry written by apply; after an apply_func call with a
\* cache store, every apply_func call by a tool that reads the cache with
\* those four equal is served that content; on a miss the producer runs
\* once, with the given arguments.
C16_ApplyFuncKeys ==
    /\ (last.op = "apply" /\ last.hit) => last.from.op = "apply"
    /\ (last.op = "apply_func" /\ last.ret.tag = "new") =>
          /\ last.hit =>
                last.from = [op |-> "apply_func", subject |-> last.args,
                             filters |-> FilterIds(LastMatching), type |-> last.type,
                             extra |-> Extra(last.cache_key)]
          /\ ~last.hit =>
                /\ Len(last.invoked) = 1
                /\ last.invoked[1].filter = LastMatching[1]
                /\ last.invoked[1].type = last.type
                /\ last.invoked[1].in = Text(last.args)
          /\ last.tool.cache =>
                \A t \in ReadTools, kw \in CallOpts, ck \in KeyCacheKeys, fl \in FuncLists :
                    (Extra(ck) = Extra(last.cache_key)
                        /\ Len(Matching(fl, last.type)) = 1
                        /\ FilterEq(Matching(fl, last.type)[1], LastMatching[1])) =>
                        LET r == ApplyFuncRes(t, fl, last.type, last.args, kw, ck,
                                              cache, drained)
                        IN r.hit /\ r.ret.content = last.ret.content

\* An apply_func call with cache_key=[] served from the entry a call with no
\* cache_key wrote, while the store also holds an entry for other extra
\* key values.
C16_Witness ==
    /\ last.op = "apply_func"
    /\ last.hit
    /\ last.cache_key = [given |-> TRUE, val |-> <<>>]
    /\ last.from.extra = <<>>
    /\ Cardinality(DOMAIN cache) = 1

C20_ErrorsLeaveNoTrace ==
    (last.op = "apply_func"
        /\ last.ret.tag \in {"NoFilters", "MoreThanOneFilterError"}) =>
        /\ last.invoked = <<>>
        /\ last.ops = <<>>
        /\ last.delta = {}
        /\ ~last.hit

\* MoreThanOneFilterError raised by a tool with a store that holds entries.
C20_Witness ==
    /\ last.op = "apply_func"
    /\ last.ret.tag = "MoreThanOneFilterError"
    /\ last.tool.cache
    /\ cache # <<>>
    /\ ncalls = 2

====
